---- MODULE Spec2Model ----
(***************************************************************************)
(* Community Spotlight bot (src/unnamed/part_003): the promotion           *)
(* classifier looksLikePromo, the SQLite-backed stores (post_queue,        *)
(* posted_uris, followed_dids, blocklist) and the timer-driven tasks       *)
(* (checkForSubmissions, searchStartupPosts, searchFollowingNetwork,       *)
(* postSpotlight, followBack) that read and write them.                    *)
(*                                                                         *)
(* The columns posted_at, followed_at and added_at are written with         *)
(* Date.now() and never read by the bot; the tables are modelled by their  *)
(* remaining columns.                                                      *)
(*                                                                         *)
(* Texts are TLA+ strings; includes, toLowerCase and length are computed   *)
(* on their characters.  A task is a sequence of steps, one per awaited    *)
(* store or platform call: whatever the code does between two awaits is    *)
(* one atomic step, and tasks of different timers interleave at awaits.    *)
(***************************************************************************)
EXTENDS Integers, Sequences, FiniteSets, TLC

VARIABLES
  queue,      \* post_queue: set of rows [id, author, author_did, text, uri, timestamp]
  nextId,     \* next AUTOINCREMENT id of post_queue
  posted,     \* posted_uris: the uris stored (primary key)
  followed,   \* followed_dids: the dids stored (primary key)
  blocklist,  \* blocklist: set of rows [did, handle, reason], did the primary key
  now,        \* Date.now()
  following,  \* platform: the accounts the bot follows (viewer.following)
  pc,         \* per task: the awaited call the task performs next
  routine,    \* per task: the timer routine it runs
  cur,        \* per task: the post / notification / follower being processed
  sub,        \* per task: postSpotlight's submission row
  followCalls,\* history: per account, the number of agent.follow calls issued
  published,  \* history: the rows that agent.post has published
  input,      \* harnesses: the argument of the call under test
  result,     \* harnesses: what the call under test returned
  calls,      \* follow harness: autoFollow invocations completed
  session,    \* index.js: let session ("null" or "ok": it has an accessJwt)
  isRunning,  \* index.js: let isRunning
  timer,      \* index.js: setInterval(runBotRoutine, TASK_INTERVAL_MS) was called
  mainPc,     \* index.js: main's position ("off": the script is not running)
  loginFailed \* history: the login of main failed

vars == <<queue, nextId, posted, followed, blocklist, now, following, pc, routine,
          cur, sub, followCalls, published, input, result, calls, session,
          isRunning, timer, mainPc, loginFailed>>

storeVars == <<queue, nextId, posted, followed, blocklist>>
taskVars == <<pc, routine, cur, sub>>
histVars == <<followCalls, published>>
routineVars == <<session, isRunning, timer, mainPc, loginFailed>>
harnessVars == <<input, result, calls, routineVars>>

\* the script of runBotRoutine is not running
NoRoutine ==
  /\ session = "null" /\ isRunning = FALSE /\ timer = FALSE
  /\ mainPc = "off" /\ loginFailed = FALSE

----------------------------------------------------------------------------
(* Strings *)

\* String.prototype.includes
includes(s, p) ==
  \E i \in 1..(Len(s) - Len(p) + 1) : SubSeq(s, i, i + Len(p) - 1) = p

lowerChar(c) ==
  CASE c = "A" -> "a" [] c = "B" -> "b" [] c = "C" -> "c" [] c = "D" -> "d"
    [] c = "E" -> "e" [] c = "F" -> "f" [] c = "G" -> "g" [] c = "H" -> "h"
    [] c = "I" -> "i" [] c = "J" -> "j" [] c = "K" -> "k" [] c = "L" -> "l"
    [] c = "M" -> "m" [] c = "N" -> "n" [] c = "O" -> "o" [] c = "P" -> "p"
    [] c = "Q" -> "q" [] c = "R" -> "r" [] c = "S" -> "s" [] c = "T" -> "t"
    [] c = "U" -> "u" [] c = "V" -> "v" [] c = "W" -> "w" [] c = "X" -> "x"
    [] c = "Y" -> "y" [] c = "Z" -> "z" [] OTHER -> c

\* toLowerCase with one fault: const lower = (text || '')
toLowerCaseMissing(s) == s

\* String.prototype.toLowerCase
RECURSIVE toLowerCase(_)
toLowerCase(s) ==
  IF Len(s) = 0 THEN ""
  ELSE lowerChar(SubSeq(s, 1, 1)) \o toLowerCase(SubSeq(s, 2, Len(s)))

\* (s.match(/https?:\/\//g) || []).length
RECURSIVE linkCountFrom(_, _)
linkCountFrom(s, i) ==
  IF i > Len(s) THEN 0
  ELSE IF i + 6 <= Len(s) /\ SubSeq(s, i, i + 6) = "http://"
       THEN 1 + linkCountFrom(s, i + 7)
  ELSE IF i + 7 <= Len(s) /\ SubSeq(s, i, i + 7) = "https://"
       THEN 1 + linkCountFrom(s, i + 8)
  ELSE linkCountFrom(s, i + 1)

----------------------------------------------------------------------------
(* Classifier *)

PROMO_KEYWORDS ==
  { "launched", "built this", "made this", "working on", "side project",
    "feedback welcome", "check out my", "just shipped", "new project",
    "my app", "my game", "my product", "my startup" }

SPAM_PATTERNS ==
  { "cupom", "precinho", "amazon", "iphone", "playstation", "nintendo",
    "preço", "oferta", "desconto", "compre", "deal", "sale",
    "lumens", "flashlight", "rechargeable", "pack -", "camera -",
    "wireless security", "night vision", "arlo", "olight",
    "breaking:", "breaking news", "cbs", "nbc", "nba", "nfl", "sports",
    "Bulls", "Lakers", "game highlights", "score", "final score",
    "news:", "report:", "mayor", "election", "politics",
    "watch:", "video:", "stream:", "live now", "tune in",
    "laser", "filament", "3d print", "cutting", "engraving",
    "journal", "research paper", "academic", "university", "optica.org",
    "summary by", "spotlight summary", "spotlightsunday" }

BAD_CONTEXT ==
  { "buy now", "order", "purchase", "shipping", "delivery",
    "lumens", "battery", "waterproof", "durable", "warranty",
    "research", "study", "paper", "journal", "academic" }

DEV_CONTEXT ==
  { "built", "made", "working on", "project", "app", "game",
    "website", "startup", "launch", "feedback", "beta" }

MinTextLength == 20
MaxLinks == 2
MinKeywords == 2

\* looksLikePromo with one fault: the length rule has no exception for #promote
looksLikePromoLengthFirst(t) ==
  LET lower == toLowerCase(t) IN
  IF \E spam \in SPAM_PATTERNS : includes(lower, spam) THEN FALSE
  ELSE IF \E bad \in BAD_CONTEXT : includes(lower, bad) THEN FALSE
  ELSE IF linkCountFrom(lower, 1) > MaxLinks THEN FALSE
  ELSE IF Len(t) < MinTextLength THEN FALSE
  ELSE IF includes(lower, "#promote") THEN TRUE
  ELSE IF includes(lower, "#spotlight")
          /\ \E word \in DEV_CONTEXT : includes(lower, word) THEN TRUE
  ELSE IF includes(lower, "#buildinpublic") \/ includes(lower, "#indiehackers")
          \/ includes(lower, "#indiedev") \/ includes(lower, "#solopreneur") THEN TRUE
  ELSE LET hasLink == includes(lower, "http://") \/ includes(lower, "https://")
           keywordMatches == {word \in PROMO_KEYWORDS : includes(lower, word)}
       IN  hasLink /\ Cardinality(keywordMatches) >= MinKeywords

\* looksLikePromo with one fault: the length rule is missing
looksLikePromoNoLength(t) ==
  LET lower == toLowerCase(t) IN
  IF \E spam \in SPAM_PATTERNS : includes(lower, spam) THEN FALSE
  ELSE IF \E bad \in BAD_CONTEXT : includes(lower, bad) THEN FALSE
  ELSE IF linkCountFrom(lower, 1) > MaxLinks THEN FALSE
  ELSE IF includes(lower, "#promote") THEN TRUE
  ELSE IF includes(lower, "#spotlight")
          /\ \E word \in DEV_CONTEXT : includes(lower, word) THEN TRUE
  ELSE IF includes(lower, "#buildinpublic") \/ includes(lower, "#indiehackers")
          \/ includes(lower, "#indiedev") \/ includes(lower, "#solopreneur") THEN TRUE
  ELSE LET hasLink == includes(lower, "http://") \/ includes(lower, "https://")
           keywordMatches == {word \in PROMO_KEYWORDS : includes(lower, word)}
       IN  hasLink /\ Cardinality(keywordMatches) >= MinKeywords

looksLikePromo(t) ==
  LET lower == toLowerCase(t) IN
  IF \E spam \in SPAM_PATTERNS : includes(lower, spam) THEN FALSE
  ELSE IF \E bad \in BAD_CONTEXT : includes(lower, bad) THEN FALSE
  ELSE IF linkCountFrom(lower, 1) > MaxLinks THEN FALSE
  ELSE IF Len(t) < MinTextLength /\ ~includes(lower, "#promote") THEN FALSE
  ELSE IF includes(lower, "#promote") THEN TRUE
  ELSE IF includes(lower, "#spotlight")
          /\ \E word \in DEV_CONTEXT : includes(lower, word) THEN TRUE
  ELSE IF includes(lower, "#buildinpublic") \/ includes(lower, "#indiehackers")
          \/ includes(lower, "#indiedev") \/ includes(lower, "#solopreneur") THEN TRUE
  ELSE LET hasLink == includes(lower, "http://") \/ includes(lower, "https://")
           keywordMatches == {word \in PROMO_KEYWORDS : includes(lower, word)}
       IN  hasLink /\ Cardinality(keywordMatches) >= MinKeywords

----------------------------------------------------------------------------
(* Bounds *)

MaxTime == 1        \* Date.now() ranges over 0..MaxTime
MaxId == 2          \* post_queue ids handed out: 1..MaxId
MaxFollowCalls == 1 \* agent.follow may fail while fewer calls than this were issued

----------------------------------------------------------------------------
(* Variants of the store and platform functions, each with one fault, against
   which the properties below are tested *)

\* INSERT without the UNIQUE constraint on uri
addToQueueNoUnique(q, id, submission) ==
  q \cup {[id |-> id, author |-> submission.author,
           author_did |-> submission.authorDid, text |-> submission.text,
           uri |-> submission.uri, timestamp |-> submission.timestamp]}

\* INSERT OR REPLACE: the row of the same uri is replaced by the new one
addToQueueReplace(q, id, submission) ==
  {r \in q : r.uri # submission.uri}
    \cup {[id |-> id, author |-> submission.author,
           author_did |-> submission.authorDid, text |-> submission.text,
           uri |-> submission.uri, timestamp |-> submission.timestamp]}

\* ORDER BY timestamp DESC
getNextFromQueueNewest(q) ==
  {r \in q : \A o \in q : r.timestamp >= o.timestamp}

\* no ORDER BY
getNextFromQueueAny(q) == q

\* DELETE FROM post_queue without the WHERE clause
removeFromQueueAll(q, id) == {}

\* if (!profile.data.viewer?.following)
viewerFollowingInverted(f, did) == did \notin f

----------------------------------------------------------------------------
(* Stores *)

NoRow == [id |-> 0]

\* INSERT OR IGNORE INTO post_queue (...): uri is UNIQUE, id is AUTOINCREMENT
addToQueue(q, id, submission) ==
  IF \E r \in q : r.uri = submission.uri THEN q
  ELSE q \cup {[id |-> id, author |-> submission.author,
                author_did |-> submission.authorDid, text |-> submission.text,
                uri |-> submission.uri, timestamp |-> submission.timestamp]}

\* SELECT * FROM post_queue ORDER BY timestamp ASC LIMIT 1: the rows the query
\* may return.  The statement orders by timestamp alone, so among rows of equal
\* timestamp any one may come first; the result is undefined on an empty table.
getNextFromQueue(q) ==
  {r \in q : \A o \in q : r.timestamp <= o.timestamp}

\* DELETE FROM post_queue WHERE id = ?
removeFromQueue(q, id) == {r \in q : r.id # id}

\* SELECT COUNT(*) FROM post_queue
getQueueSize(q) == Cardinality(q)

\* SELECT uri FROM posted_uris WHERE uri = ?
isPosted(p, uri) == uri \in p

\* INSERT OR IGNORE INTO posted_uris (uri, posted_at)
markAsPosted(p, uri) == IF isPosted(p, uri) THEN p ELSE p \cup {uri}

\* SELECT did FROM followed_dids WHERE did = ?
isFollowed(f, did) == did \in f

\* INSERT OR IGNORE INTO followed_dids (did, followed_at)
markAsFollowed(f, did) == IF isFollowed(f, did) THEN f ELSE f \cup {did}

\* SELECT did FROM blocklist WHERE did = ?
isBlocked(b, did) == \E r \in b : r.did = did

\* INSERT OR IGNORE INTO blocklist (did, handle, reason, added_at)
addToBlocklist(b, did, handle, reason) ==
  IF isBlocked(b, did) THEN b
  ELSE b \cup {[did |-> did, handle |-> handle, reason |-> reason]}

----------------------------------------------------------------------------
(* The platform: accounts and the posts its feeds, searches and notifications
   can return *)

DIDs == {"did:bob"}

Posts == {"p1", "p2", "p3"}

PostOf ==
  [p \in Posts |->
     CASE p = "p1" ->
            [uri |-> "at://bob/1", did |-> "did:bob", handle |-> "bob.io",
             text |-> "Just shipped my new side project! https://example.com #buildinpublic"]
       [] p = "p2" ->
            [uri |-> "at://bob/2", did |-> "did:bob", handle |-> "bob.io",
             text |-> "#Promote my game"]
       [] p = "p3" ->
            [uri |-> "at://bob/3", did |-> "did:bob", handle |-> "bob.io",
             text |-> "please stop #spotlight"]]

URIs == {PostOf[p].uri : p \in Posts}

\* process.env.BLUESKY_USERNAME.replace('.bsky.social', '')
OwnHandle == "spotbot"

isOwnPost(handle) == handle = OwnHandle \/ includes(handle, OwnHandle)

OPT_OUT_PHRASES ==
  { "stop", "unfollow", "dont follow", "don't follow", "opt out", "remove me",
    "no bot", "unsubscribe" }

isOptOut(t) ==
  LET lowerText == toLowerCase(t) IN
  \E phrase \in OPT_OUT_PHRASES : includes(lowerText, phrase)

\* the test that guards addToQueue in checkForSubmissions' notification loop
mentionMatches(t) ==
  \/ includes(toLowerCase(t), "#spotlight")
  \/ includes(toLowerCase(t), "#promote")
  \/ looksLikePromo(t)

\* addPostIfRelevant guarding addToQueue with the test of the notification loop
postMatchesAsMention(handle, t) == ~isOwnPost(handle) /\ mentionMatches(t)

\* the tests that guard addToQueue in addPostIfRelevant
postMatches(handle, t) == ~isOwnPost(handle) /\ looksLikePromo(t)

OptOutOf == [p \in Posts |-> isOptOut(PostOf[p].text)]
MentionMatchOf == [p \in Posts |-> mentionMatches(PostOf[p].text)]
PostMatchOf == [p \in Posts |-> postMatches(PostOf[p].handle, PostOf[p].text)]

----------------------------------------------------------------------------
(* Tasks: the invocations of the timer routines that are in progress *)

Tasks == {"t1", "t2"}

\* where a routine continues once the item it was processing is done
AfterItem(r) ==
  CASE r = "check" -> "chk_loop"
    [] r = "followBack" -> "fb_loop"
    [] r = "post" -> "idle"
    [] r = "harness" -> "h_done"
    [] OTHER -> "scan_loop"

\* autoFollow without its try block: the exception of a failing follow reaches
\* the catch of checkForSubmissions
AfterFollowUncaught(r) == IF r = "check" THEN "idle" ELSE AfterItem(r)

\* where a routine continues once autoFollow has returned
AfterFollow(r) == IF r = "check" THEN "chk_like" ELSE AfterItem(r)

\* the argument autoFollow was called with
FollowTarget(t) ==
  CASE routine[t] \in {"post", "followBack", "harness"} -> cur[t]
    [] OTHER -> PostOf[cur[t]].did

Goto(t, p) ==
  /\ pc' = [pc EXCEPT ![t] = p]
  /\ routine' = [routine EXCEPT ![t] = IF p = "idle" THEN "none" ELSE @]
  /\ cur' = [cur EXCEPT ![t] =
               IF p \in {"idle", "scan_loop", "chk_loop", "fb_loop"} THEN "none" ELSE @]
  /\ sub' = [sub EXCEPT ![t] = IF p = "idle" THEN NoRow ELSE @]

\* The overlaps of two routines that are explored: a publish tick with any
\* routine, and two passes over fetched posts ("scan": searchStartupPosts,
\* searchFollowingNetwork, the spotlight-user feed of checkForSubmissions) with
\* each other.
Overlaps(a, b) ==
  \/ a = "post" \/ b = "post"
  \/ (a = "scan" /\ b = "scan")

\* The task slots are interchangeable, and a routine has its own: a publish
\* tick runs in "t2" (in "t1" while another tick is in "t2"), the other routines
\* in "t1" (a pass in "t2" while another pass is in "t1").
Slot(t, r) ==
  CASE r = "post" -> t = "t2" \/ routine["t2"] = "post"
    [] r = "scan" -> t = "t1" \/ routine["t1"] = "scan"
    [] OTHER -> t = "t1"

\* a timer fires: its routine starts in its task slot
Launch(t, r, p) ==
  /\ pc[t] = "idle"
  /\ pc' = [pc EXCEPT ![t] = p]
  /\ routine' = [routine EXCEPT ![t] = r]
  /\ UNCHANGED <<cur, sub, storeVars, now, following, histVars, harnessVars>>

Begin(t, r, p) ==
  /\ Slot(t, r)
  /\ \A o \in Tasks \ {t} : pc[o] = "idle" \/ Overlaps(routine[o], r)
  /\ Launch(t, r, p)

\* setInterval(searchStartupPosts, SEARCH_INTERVAL)
StartSearch(t) == Begin(t, "scan", "scan_loop")

\* setInterval(searchFollowingNetwork, NETWORK_INTERVAL)
StartNetwork(t) == Begin(t, "scan", "scan_loop")

\* setInterval(checkForSubmissions, CHECK_INTERVAL)
StartCheck(t) == Begin(t, "check", "chk_loop")

\* setInterval(postSpotlight, POST_INTERVAL)
StartPost(t) == Begin(t, "post", "pub_get")

\* setInterval(followBack, FOLLOWBACK_INTERVAL)
StartFollowBack(t) == Begin(t, "followBack", "fb_loop")

\* Date.now() advances, as long as a row can still be inserted with it
Tick ==
  /\ now < MaxTime
  /\ nextId <= MaxId
  /\ now' = now + 1
  /\ UNCHANGED <<storeVars, following, taskVars, histVars, harnessVars>>

(* --- discovery: searchStartupPosts, searchFollowingNetwork and the
       spotlight-user feed of checkForSubmissions --- *)

\* the platform call of the pass (searchPosts, getFollows / getAuthorFeed) returns
\* the next post, which is handed to addPostIfRelevant
ScanNext(t) ==
  /\ pc[t] = "scan_loop"
  /\ \E p \in Posts :
       /\ pc' = [pc EXCEPT ![t] = "isPosted"]
       /\ cur' = [cur EXCEPT ![t] = p]
  /\ UNCHANGED <<routine, sub, storeVars, now, following, histVars, harnessVars>>

\* the pass ends: the lists are exhausted, or a platform call failed and the pass
\* was abandoned
ScanEnd(t) ==
  /\ pc[t] = "scan_loop"
  /\ Goto(t, "idle")
  /\ UNCHANGED <<storeVars, now, following, histVars, harnessVars>>

\* await isPosted(uri), in addPostIfRelevant and in checkForSubmissions
IsPostedStep(t) ==
  /\ pc[t] = "isPosted"
  /\ IF isPosted(posted, PostOf[cur[t]].uri)
     THEN Goto(t, AfterItem(routine[t]))
     ELSE Goto(t, "isBlocked")
  /\ UNCHANGED <<storeVars, now, following, histVars, harnessVars>>

\* await isBlocked(authorDid), then the match test that decides on queueing
IsBlockedStep(t) ==
  /\ pc[t] = "isBlocked"
  /\ LET p == cur[t]
         matches == IF routine[t] = "check" THEN MentionMatchOf[p] ELSE PostMatchOf[p]
     IN  IF isBlocked(blocklist, PostOf[p].did) \/ ~matches
         THEN Goto(t, AfterItem(routine[t]))
         ELSE Goto(t, "addToQueue")
  /\ UNCHANGED <<storeVars, now, following, histVars, harnessVars>>

\* await addToQueue({author, authorDid, text, uri, timestamp: Date.now()})
AddToQueueStep(t) ==
  /\ pc[t] = "addToQueue"
  /\ LET post == PostOf[cur[t]]
         submission == [author |-> post.handle, authorDid |-> post.did,
                        text |-> post.text, uri |-> post.uri, timestamp |-> now]
         q == addToQueue(queue, nextId, submission)
     IN  IF q # queue /\ nextId > MaxId
         THEN \* AUTOINCREMENT has used up its ids: the INSERT fails, addToQueue
              \* rethrows, and the try block around the pass catches
              /\ UNCHANGED <<queue, nextId>>
              /\ Goto(t, IF routine[t] = "check" THEN "idle" ELSE "scan_loop")
         ELSE /\ queue' = q
              /\ nextId' = IF q # queue THEN nextId + 1 ELSE nextId
              /\ Goto(t, "markAsPosted")
  /\ UNCHANGED <<posted, followed, blocklist, now, following, histVars, harnessVars>>

\* await markAsPosted(uri), after which autoFollow(authorDid) is called
MarkAsPostedStep(t) ==
  /\ pc[t] = "markAsPosted"
  /\ posted' = markAsPosted(posted, PostOf[cur[t]].uri)
  /\ Goto(t, "af_isFollowed")
  /\ UNCHANGED <<queue, nextId, followed, blocklist, now, following, histVars,
                 harnessVars>>

(* --- autoFollow --- *)

\* profile.data.viewer?.following, as agent.getProfile reports it
viewerFollowing(f, did) == did \in f

FollowIssued(fc, did) == [fc EXCEPT ![did] = @ + 1]

\* if (!did) return; if (await isFollowed(did)) return;
AfIsFollowed(t) ==
  /\ pc[t] = "af_isFollowed"
  /\ LET did == FollowTarget(t) IN
     IF did = "" \/ isFollowed(followed, did)
     THEN Goto(t, AfterFollow(routine[t]))
     ELSE Goto(t, "af_getProfile")
  /\ UNCHANGED <<storeVars, now, following, histVars, harnessVars>>

\* await agent.getProfile({actor: did}): it throws (caught, logged), or it reports
\* viewer.following
AfGetProfile(t) ==
  /\ pc[t] = "af_getProfile"
  /\ \/ Goto(t, AfterFollow(routine[t]))
     \/ IF viewerFollowing(following, FollowTarget(t))
        THEN Goto(t, "af_markFollowed")
        ELSE Goto(t, "af_follow")
  /\ UNCHANGED <<storeVars, now, following, histVars, harnessVars>>

\* autoFollow with markAsFollowed after the try block: the account is recorded
\* although agent.follow threw
AfFollowRecordsFailure(t) ==
  /\ pc[t] = "af_follow"
  /\ LET did == FollowTarget(t) IN
     \/ /\ followCalls[did] < MaxFollowCalls
        /\ followCalls' = FollowIssued(followCalls, did)
        /\ UNCHANGED following
        /\ Goto(t, "af_markFollowed")
     \/ /\ following' = following \cup {did}
        /\ followCalls' = FollowIssued(followCalls, did)
        /\ Goto(t, "af_markFollowed")
  /\ UNCHANGED <<storeVars, now, published, harnessVars>>

\* await agent.follow(did): it throws (caught, logged), or the follow is created
AfFollow(t) ==
  /\ pc[t] = "af_follow"
  /\ LET did == FollowTarget(t) IN
     \/ /\ followCalls[did] < MaxFollowCalls
        /\ followCalls' = FollowIssued(followCalls, did)
        /\ UNCHANGED following
        /\ Goto(t, AfterFollow(routine[t]))
     \/ /\ following' = following \cup {did}
        /\ followCalls' = FollowIssued(followCalls, did)
        /\ Goto(t, "af_markFollowed")
  /\ UNCHANGED <<storeVars, now, published, harnessVars>>

\* await markAsFollowed(did), on either branch of autoFollow
AfMarkFollowed(t) ==
  /\ pc[t] = "af_markFollowed"
  /\ followed' = markAsFollowed(followed, FollowTarget(t))
  /\ Goto(t, AfterFollow(routine[t]))
  /\ UNCHANGED <<queue, nextId, posted, blocklist, now, following, histVars,
                 harnessVars>>

(* --- followBack --- *)

\* agent.getFollowers returns the next follower
FbNext(t) ==
  /\ pc[t] = "fb_loop"
  /\ \E did \in DIDs :
       /\ pc' = [pc EXCEPT ![t] = "fb_isFollowed"]
       /\ cur' = [cur EXCEPT ![t] = did]
  /\ UNCHANGED <<routine, sub, storeVars, now, following, histVars, harnessVars>>

\* the routine ends: the list is exhausted, or getFollowers failed
FbEnd(t) ==
  /\ pc[t] = "fb_loop"
  /\ Goto(t, "idle")
  /\ UNCHANGED <<storeVars, now, following, histVars, harnessVars>>

\* if (!(await isFollowed(f.did))) await autoFollow(f.did)
FbIsFollowed(t) ==
  /\ pc[t] = "fb_isFollowed"
  /\ IF isFollowed(followed, cur[t])
     THEN Goto(t, "fb_loop")
     ELSE Goto(t, "af_isFollowed")
  /\ UNCHANGED <<storeVars, now, following, histVars, harnessVars>>

(* --- checkForSubmissions: the notification loop --- *)

\* agent.listNotifications returns the next mention or reply, which is an opt-out
\* request or a candidate
ChkNext(t) ==
  /\ pc[t] = "chk_loop"
  /\ \E p \in Posts :
       /\ pc' = [pc EXCEPT ![t] = IF OptOutOf[p] THEN "chk_block" ELSE "isPosted"]
       /\ cur' = [cur EXCEPT ![t] = p]
  /\ UNCHANGED <<routine, sub, storeVars, now, following, histVars, harnessVars>>

\* the notifications are done: agent.getAuthorFeed({actor: SPOTLIGHT_USER}) and
\* the pass over its posts
ChkFeed(t) ==
  /\ pc[t] = "chk_loop"
  /\ pc' = [pc EXCEPT ![t] = "scan_loop"]
  /\ routine' = [routine EXCEPT ![t] = "scan"]
  /\ UNCHANGED <<cur, sub, storeVars, now, following, histVars, harnessVars>>

\* a platform call failed outside the inner try blocks: the routine is abandoned
ChkEnd(t) ==
  /\ pc[t] = "chk_loop"
  /\ Goto(t, "idle")
  /\ UNCHANGED <<storeVars, now, following, histVars, harnessVars>>

\* await addToBlocklist(authorDid, authorHandle, 'user request via mention')
ChkBlock(t) ==
  /\ pc[t] = "chk_block"
  /\ blocklist' = addToBlocklist(blocklist, PostOf[cur[t]].did, PostOf[cur[t]].handle,
                                 "user request via mention")
  /\ Goto(t, "chk_profile")
  /\ UNCHANGED <<queue, nextId, posted, followed, now, following, histVars,
                 harnessVars>>

\* await agent.getProfile({actor: authorDid}): on an error, or when the bot does not
\* follow the author, the confirmation reply comes next
ChkProfile(t) ==
  /\ pc[t] = "chk_profile"
  /\ \/ Goto(t, "chk_reply")
     \/ /\ viewerFollowing(following, PostOf[cur[t]].did)
        /\ Goto(t, "chk_unfollow")
  /\ UNCHANGED <<storeVars, now, following, histVars, harnessVars>>

\* await agent.deleteFollow(profile.data.viewer.following): done, or it throws
ChkUnfollow(t) ==
  /\ pc[t] = "chk_unfollow"
  /\ \/ following' = following \ {PostOf[cur[t]].did}
     \/ UNCHANGED following
  /\ Goto(t, "chk_reply")
  /\ UNCHANGED <<storeVars, now, histVars, harnessVars>>

\* await agent.post({text: ..., reply: ...}): the confirmation, sent or failed
ChkReply(t) ==
  /\ pc[t] = "chk_reply"
  /\ Goto(t, "chk_loop")
  /\ UNCHANGED <<storeVars, now, following, histVars, harnessVars>>

\* await agent.like(notif.uri, notif.cid): done, or it throws (caught, logged)
ChkLike(t) ==
  /\ pc[t] = "chk_like"
  /\ Goto(t, "chk_loop")
  /\ UNCHANGED <<storeVars, now, following, histVars, harnessVars>>

(* --- postSpotlight --- *)

\* postSpotlight without the return on an empty queue
PubGetNoEmptyCheck(t) ==
  /\ pc[t] = "pub_get"
  /\ \E row \in IF queue = {} THEN {NoRow} ELSE getNextFromQueue(queue) :
       /\ pc' = [pc EXCEPT ![t] = "pub_post"]
       /\ sub' = [sub EXCEPT ![t] = row]
       /\ UNCHANGED <<routine, cur>>
  /\ UNCHANGED <<storeVars, now, following, histVars, harnessVars>>

\* const submission = await getNextFromQueue(); if (!submission) return;
PubGet(t) ==
  /\ pc[t] = "pub_get"
  /\ IF queue = {}
     THEN Goto(t, "idle")
     ELSE \E row \in getNextFromQueue(queue) :
            /\ pc' = [pc EXCEPT ![t] = "pub_post"]
            /\ sub' = [sub EXCEPT ![t] = row]
            /\ UNCHANGED <<routine, cur>>
  /\ UNCHANGED <<storeVars, now, following, histVars, harnessVars>>

\* await rt.detectFacets(agent); await agent.post(...): one of them throws
\* (caught: "Leave in queue for retry later")
PubFail(t) ==
  /\ pc[t] = "pub_post"
  /\ Goto(t, "pub_catch")
  /\ UNCHANGED <<storeVars, now, following, histVars, harnessVars>>

\* a catch block that gives up the entry after a failed attempt
PubCatchDrops(t) ==
  /\ pc[t] = "pub_catch"
  /\ queue' = removeFromQueue(queue, sub[t].id)
  /\ Goto(t, "idle")
  /\ UNCHANGED <<nextId, posted, followed, blocklist, now, following, histVars,
                 harnessVars>>

\* catch (err) { console.error(...) }: the tick ends
PubCatch(t) ==
  /\ pc[t] = "pub_catch"
  /\ Goto(t, "idle")
  /\ UNCHANGED <<storeVars, now, following, histVars, harnessVars>>

\* await rt.detectFacets(agent); await agent.post(...): the spotlight is published
PubOk(t) ==
  /\ pc[t] = "pub_post"
  /\ published' = published \cup {sub[t]}
  /\ Goto(t, "pub_remove")
  /\ UNCHANGED <<storeVars, now, following, followCalls, harnessVars>>

\* removeFromQueue deleting the uri from posted_uris as well
PubRemoveClearsPosted(t) ==
  /\ pc[t] = "pub_remove"
  /\ queue' = removeFromQueue(queue, sub[t].id)
  /\ posted' = posted \ {sub[t].uri}
  /\ Goto(t, "idle")
  /\ UNCHANGED <<nextId, followed, blocklist, now, following, histVars,
                 harnessVars>>

\* await removeFromQueue(submission.id);
\* if (submission.author_did) await autoFollow(submission.author_did)
PubRemove(t) ==
  /\ pc[t] = "pub_remove"
  /\ queue' = removeFromQueue(queue, sub[t].id)
  /\ IF sub[t].author_did # ""
     THEN /\ pc' = [pc EXCEPT ![t] = "af_isFollowed"]
          /\ cur' = [cur EXCEPT ![t] = sub[t].author_did]
          /\ sub' = [sub EXCEPT ![t] = NoRow]
          /\ UNCHANGED routine
     ELSE Goto(t, "idle")
  /\ UNCHANGED <<nextId, posted, followed, blocklist, now, following, histVars,
                 harnessVars>>

----------------------------------------------------------------------------
(* The bot: any timer may fire while a task slot is free *)

\* process.on('SIGINT'): the final stats are read, the database is closed and
\* the process exits, with whatever the routines in progress had not done yet
Shutdown ==
  /\ \E t \in Tasks : pc[t] # "exited"
  /\ pc' = [t \in Tasks |-> "exited"]
  /\ routine' = [t \in Tasks |-> "none"]
  /\ cur' = [t \in Tasks |-> "none"]
  /\ sub' = [t \in Tasks |-> NoRow]
  /\ UNCHANGED <<storeVars, now, following, histVars, harnessVars>>

NoFollowCalls == [d \in DIDs |-> 0]

Init ==
  /\ queue = {} /\ nextId = 1 /\ posted = {} /\ followed = {} /\ blocklist = {}
  /\ now = 0
  /\ following = {}
  /\ pc = [t \in Tasks |-> "idle"]
  /\ routine = [t \in Tasks |-> "none"]
  /\ cur = [t \in Tasks |-> "none"]
  /\ sub = [t \in Tasks |-> NoRow]
  /\ followCalls = NoFollowCalls
  /\ published = {}
  /\ input = "" /\ result = "unset" /\ calls = 0
  /\ NoRoutine

\* timestamp: Date.now() is read where addToQueue's argument is built, and only
\* the order of the timestamps is observed (ORDER BY timestamp): the clock
\* advances there, and no further than the rows inserted so far can tell apart
TickAtRead ==
  /\ now < nextId - 1
  /\ \E t \in Tasks : pc[t] = "addToQueue"
  /\ Tick

Next ==
  \/ TickAtRead
  \/ Shutdown
  \/ \E t \in Tasks :
       \/ StartSearch(t) \/ StartNetwork(t) \/ StartCheck(t)
       \/ StartPost(t) \/ StartFollowBack(t)
       \/ ScanNext(t) \/ ScanEnd(t) \/ IsPostedStep(t) \/ IsBlockedStep(t)
       \/ AddToQueueStep(t) \/ MarkAsPostedStep(t)
       \/ AfIsFollowed(t) \/ AfGetProfile(t) \/ AfFollow(t) \/ AfMarkFollowed(t)
       \/ FbNext(t) \/ FbEnd(t) \/ FbIsFollowed(t)
       \/ ChkNext(t) \/ ChkFeed(t) \/ ChkEnd(t) \/ ChkBlock(t) \/ ChkProfile(t) \/ ChkUnfollow(t)
       \/ ChkReply(t) \/ ChkLike(t)
       \/ PubGet(t) \/ PubFail(t) \/ PubCatch(t) \/ PubOk(t) \/ PubRemove(t)

Spec == Init /\ [][Next]_vars

(* The pipeline from discovery to publication: the discovery routines run one
   at a time in task "t1", the publish ticks in task "t2", each overlapping the
   other at every step. *)

\* setInterval(searchStartupPosts, ...), setInterval(searchFollowingNetwork, ...)
PipeScan == Launch("t1", "scan", "scan_loop")

\* setInterval(checkForSubmissions, CHECK_INTERVAL)
PipeCheck == Launch("t1", "check", "chk_loop")

\* setInterval(postSpotlight, POST_INTERVAL)
PipePost == Launch("t2", "post", "pub_get")

Discovery(t) ==
  \/ ScanNext(t) \/ ScanEnd(t) \/ IsPostedStep(t) \/ IsBlockedStep(t)
  \/ AddToQueueStep(t) \/ MarkAsPostedStep(t)
  \/ ChkNext(t) \/ ChkFeed(t) \/ ChkEnd(t) \/ ChkBlock(t) \/ ChkProfile(t)
  \/ ChkUnfollow(t) \/ ChkReply(t) \/ ChkLike(t)

AutoFollow(t) ==
  AfIsFollowed(t) \/ AfGetProfile(t) \/ AfFollow(t) \/ AfMarkFollowed(t)

Publish(t) ==
  PubGet(t) \/ PubFail(t) \/ PubCatch(t) \/ PubOk(t) \/ PubRemove(t)

NextPipeline ==
  \/ Tick
  \/ PipeScan
  \/ PipeCheck
  \/ PipePost
  \/ Discovery("t1")
  \/ AutoFollow("t1")
  \/ Publish("t2")
  \/ AutoFollow("t2")

\* The scheduling the timers and the event loop give the publish ticks: the
\* publish timer keeps firing, a step of a tick that is waiting on the store or
\* the platform is eventually taken, and the publish call for an entry that is
\* tried again and again eventually succeeds.  Nothing is assumed of discovery.
Fairness ==
  /\ WF_vars(Publish("t2"))
  /\ WF_vars(AutoFollow("t2"))
  /\ WF_vars(PipePost)
  /\ \A id \in 1..MaxId : SF_vars(sub["t2"].id = id /\ PubOk("t2"))

FairSpec == Init /\ [][NextPipeline]_vars /\ Fairness

----------------------------------------------------------------------------
(* Discovery on its own: checkForSubmissions in task "t1" and a pass of
   searchStartupPosts or searchFollowingNetwork in task "t2", each overlapping
   the other at every step; nothing is published. *)

\* setInterval(checkForSubmissions, CHECK_INTERVAL)
DiscCheck == Launch("t1", "check", "chk_loop")

\* setInterval(searchStartupPosts, ...), setInterval(searchFollowingNetwork, ...)
DiscScan == Launch("t2", "scan", "scan_loop")

NextDiscovery ==
  \/ Tick
  \/ DiscCheck
  \/ DiscScan
  \/ Discovery("t1")
  \/ AutoFollow("t1")
  \/ Discovery("t2")
  \/ AutoFollow("t2")

SpecDiscovery == Init /\ [][NextDiscovery]_vars

----------------------------------------------------------------------------
(* looksLikePromo on its own: one call on one text *)

MaxFragments == 3   \* a text under test is made of at most this many fragments

Fragments ==
  { "Go Bulls! ", "big SALE ", "#Promote ", "#spotlight ", "#IndieDev ",
    "https://x.io ", "just shipped ", "my app ", "study ",
    "a nice long sentence. ", "http://a.co https://b.co " }

RECURSIVE Concat(_)
Concat(fs) == IF fs = <<>> THEN "" ELSE Head(fs) \o Concat(Tail(fs))

Texts == { Concat(fs) : fs \in UNION { [1..n -> Fragments] : n \in 0..MaxFragments } }

Idle ==
  /\ pc = [t \in Tasks |-> "idle"]
  /\ routine = [t \in Tasks |-> "none"]
  /\ cur = [t \in Tasks |-> "none"]
  /\ sub = [t \in Tasks |-> NoRow]
  /\ followCalls = NoFollowCalls
  /\ published = {}
  /\ now = 0

InitClassify ==
  /\ Idle
  /\ queue = {} /\ nextId = 1 /\ posted = {} /\ followed = {} /\ blocklist = {}
  /\ following = {}
  /\ input \in Texts /\ result = "unset" /\ calls = 0
  /\ NoRoutine

\* looksLikePromo(text) is called and returns
Classify ==
  /\ calls = 0
  /\ calls' = 1
  /\ result' = looksLikePromo(input)
  /\ UNCHANGED <<storeVars, now, following, taskVars, histVars, input>>
  /\ UNCHANGED routineVars

\* looksLikePromo(text) with text undefined or null: (text || '') is the empty
\* string, and the first rule that reads text itself, text.length, raises a
\* TypeError
looksLikePromoMissing ==
  LET lower == toLowerCase("") IN
  IF \E spam \in SPAM_PATTERNS : includes(lower, spam)
  THEN [threw |-> FALSE, value |-> FALSE]
  ELSE IF \E bad \in BAD_CONTEXT : includes(lower, bad)
  THEN [threw |-> FALSE, value |-> FALSE]
  ELSE IF linkCountFrom(lower, 1) > MaxLinks
  THEN [threw |-> FALSE, value |-> FALSE]
  ELSE [threw |-> TRUE, value |-> FALSE]

\* looksLikePromo(undefined) is called: it returns, or the caller is left with
\* the exception; input holds (text || '')
ClassifyMissing ==
  /\ calls = 0 /\ pc["t1"] = "idle"
  /\ input' = ""
  /\ LET r == looksLikePromoMissing IN
       IF r.threw
       THEN /\ pc' = [pc EXCEPT !["t1"] = "TypeError"]
            /\ UNCHANGED <<result, calls>>
       ELSE /\ result' = r.value
            /\ calls' = 1
            /\ UNCHANGED pc
  /\ UNCHANGED <<storeVars, now, following, routine, cur, sub, histVars>>
  /\ UNCHANGED routineVars

NextClassify ==
  \/ Classify
  \/ ClassifyMissing

SpecClassify == InitClassify /\ [][NextClassify]_vars

----------------------------------------------------------------------------
(* The post_queue functions on their own: any sequence of calls *)

MaxInserts == 3     \* rows inserted into post_queue by the store calls
MaxStamp == 2       \* their timestamps range over 0..MaxStamp

Submissions ==
  { [author |-> "bob.io", authorDid |-> "did:bob", text |-> "#promote my game",
     uri |-> u, timestamp |-> ts] : u \in URIs, ts \in 0..MaxStamp }

InitQueue ==
  /\ Idle
  /\ queue = {} /\ nextId = 1 /\ posted = {} /\ followed = {} /\ blocklist = {}
  /\ following = {}
  /\ input = [op |-> "none", uri |-> "", timestamp |-> 0] /\ result = NoRow /\ calls = 0
  /\ NoRoutine

\* await addToQueue(submission)
QAdd(s) ==
  /\ LET q == addToQueue(queue, nextId, s) IN
       /\ q # queue => nextId <= MaxInserts
       /\ queue' = q
       /\ nextId' = IF q # queue THEN nextId + 1 ELSE nextId
  /\ input' = [op |-> "addToQueue", uri |-> s.uri, timestamp |-> s.timestamp]
  /\ UNCHANGED <<posted, followed, blocklist, now, following, taskVars, histVars,
                 result, calls>>
  /\ UNCHANGED routineVars

\* await getNextFromQueue(): a row, or undefined
QNext ==
  /\ IF queue = {} THEN result' = NoRow ELSE result' \in getNextFromQueue(queue)
  /\ input' = [op |-> "getNextFromQueue", uri |-> "", timestamp |-> 0]
  /\ UNCHANGED <<storeVars, now, following, taskVars, histVars, calls>>
  /\ UNCHANGED routineVars

\* await removeFromQueue(id)
QRemove(id) ==
  /\ queue' = removeFromQueue(queue, id)
  /\ input' = [op |-> "removeFromQueue", uri |-> "", timestamp |-> 0]
  /\ UNCHANGED <<nextId, posted, followed, blocklist, now, following, taskVars,
                 histVars, result, calls>>
  /\ UNCHANGED routineVars

NextQueue ==
  \/ \E s \in Submissions : QAdd(s)
  \/ QNext
  \/ \E id \in 1..MaxInserts : QRemove(id)

SpecQueue == InitQueue /\ [][NextQueue]_vars

----------------------------------------------------------------------------
(* autoFollow on its own: two calls in a row on one account *)

InitFollow ==
  /\ Idle
  /\ queue = {} /\ nextId = 1 /\ posted = {}
  /\ followed \in SUBSET DIDs
  /\ following \in SUBSET DIDs
  /\ blocklist \in { {}, addToBlocklist({}, "did:bob", "bob.io",
                                      "user request via mention") }
  /\ input \in DIDs \cup {""}
  /\ result = [fresh |-> input \notin followed \cup following, first |-> "pending"]
  /\ calls = 0
  /\ NoRoutine

\* await autoFollow(did): the call
HCall ==
  /\ pc["t1"] = "idle" /\ calls < 2
  /\ pc' = [pc EXCEPT !["t1"] = "af_isFollowed"]
  /\ routine' = [routine EXCEPT !["t1"] = "harness"]
  /\ cur' = [cur EXCEPT !["t1"] = input]
  /\ UNCHANGED <<sub, storeVars, now, following, histVars, harnessVars>>
  /\ UNCHANGED routineVars

\* await autoFollow(did): the return; after the first call it is noted whether
\* the platform now shows the account as followed
HReturn ==
  /\ pc["t1"] = "h_done"
  /\ calls' = calls + 1
  /\ result' = IF calls = 0
               THEN [result EXCEPT !.first = IF input \in following THEN "followed"
                                             ELSE "notFollowed"]
               ELSE result
  /\ Goto("t1", "idle")
  /\ UNCHANGED <<storeVars, now, following, histVars, input>>
  /\ UNCHANGED routineVars

NextFollow ==
  \/ HCall
  \/ HReturn
  \/ AfIsFollowed("t1")
  \/ AfGetProfile("t1")
  \/ AfFollow("t1")
  \/ AfMarkFollowed("t1")

SpecFollow == InitFollow /\ [][NextFollow]_vars

----------------------------------------------------------------------------
(* Properties of the queue and of the publish tick *)

\* C1: at every moment no two entries of the post queue have the same uri,
\* whatever discovery passes and publish ticks overlap.
C1_QueueUriUnique ==
  \A a \in queue : \A b \in queue : a.uri = b.uri => a = b

\* two overlapping passes have both issued addToQueue for the same post, and the
\* queue holds one row for it
C1_Witness ==
  /\ pc["t1"] = "markAsPosted" /\ pc["t2"] = "markAsPosted"
  /\ cur["t1"] = cur["t2"]
  /\ Cardinality({r \in queue : r.uri = PostOf[cur["t1"]].uri}) = 1

\* C2: addToQueue with a uri that is already queued leaves the queue exactly as
\* it was: the first row keeps its author, text and timestamp, and no row is added.
C2_AddToQueueIdempotent ==
  [][\A s \in Submissions :
       (input' = [op |-> "addToQueue", uri |-> s.uri, timestamp |-> s.timestamp]
          /\ (\E r \in queue : r.uri = s.uri) /\ QAdd(s)) => queue' = queue]_vars

\* the last call was addToQueue for a queued uri with another timestamp than the
\* row's
C2_Witness ==
  /\ input.op = "addToQueue"
  /\ \E r \in queue : r.uri = input.uri /\ r.timestamp # input.timestamp

\* C3 (as amended): a publish tick whose publish call fails leaves the queue as
\* it was, and the entry it tried, if it is still queued, has the lowest
\* timestamp of the queue: the next tick chooses it or an entry of the same
\* timestamp.
C3_FailureKeepsEntry ==
  [][\A t \in Tasks :
       PubFail(t) =>
         /\ queue' = queue
         /\ sub[t] \in queue' =>
              \A o \in queue' : sub[t].timestamp <= o.timestamp]_vars

\* a publish call has failed and its entry is still queued, next to another one
C3_Witness ==
  \E t \in Tasks :
    /\ pc[t] = "pub_catch"
    /\ sub[t] \in queue
    /\ Cardinality(queue) = 2

\* C3 as stated: after the failed publish of an entry that is still queued, that
\* entry is the one the next publish tick chooses.
C3_Original ==
  [][\A t \in Tasks :
       (PubFail(t) /\ sub[t] \in queue) =>
         (queue' = queue /\ getNextFromQueue(queue') = {sub[t]})]_vars

\* C4 (as amended): once the publish call has succeeded the tick removes from
\* the queue the entry it published, and no other, and adds nothing to
\* posted_uris: the uri was added by the pass that queued the entry.
C4_SuccessRemovesPublished ==
  [][\A t \in Tasks :
       PubRemove(t) =>
         /\ sub[t] \in published
         /\ queue' = queue \ {sub[t]}
         /\ posted' = posted]_vars

\* a tick has published an entry and removed it, another entry is still queued,
\* and the uri of the published one is in posted_uris
C4_Witness ==
  \E t \in Tasks :
    /\ routine[t] = "post" /\ pc[t] = "af_isFollowed"
    /\ queue # {}
    /\ \E r \in published : r \notin queue /\ isPosted(posted, r.uri)

\* C4 as stated: the tick removes one entry from the queue and adds one entry
\* to posted_uris.
C4_Original ==
  [][\A t \in Tasks :
       PubRemove(t) =>
         /\ Cardinality(queue') = Cardinality(queue) - 1
         /\ Cardinality(posted') = Cardinality(posted) + 1]_vars

\* C5: an entry leaves the queue only after a publish call for it has succeeded,
\* and, when publish ticks keep firing and the publish call for an entry tried
\* again and again eventually succeeds, every queued entry is eventually
\* published and removed.
C5_AtLeastOnce ==
  /\ [][\A r \in queue : r \notin queue' => r \in published]_vars
  /\ \A id \in 1..MaxId :
       (\E r \in queue : r.id = id)
         ~> (/\ \E r \in published : r.id = id
             /\ \A r \in queue : r.id # id)

\* every id was handed out, and every entry was published and removed
C5_Witness ==
  /\ queue = {}
  /\ nextId > MaxId
  /\ {r.id : r \in published} = 1..MaxId

\* C6 (as amended): entries are published in the order of their timestamps: when
\* an entry is published for the first time, no entry of a higher timestamp has
\* been published before it.
C6_FifoByTimestamp ==
  [][\A t \in Tasks :
       (PubOk(t) /\ sub[t] \notin published) =>
         \A x \in published : x.timestamp <= sub[t].timestamp]_vars

\* two entries of different timestamps have been published
C6_Witness ==
  \E a \in published : \E b \in published : a.timestamp < b.timestamp

\* C6 as stated: entries are published in the order in which they were queued,
\* entries of equal timestamps included: when an entry is published for the first
\* time, no entry queued after it has been published before it.
C6_Original ==
  [][\A t \in Tasks :
       (PubOk(t) /\ sub[t] \notin published) =>
         \A x \in published : x.id < sub[t].id]_vars

\* C7: getNextFromQueue returns an entry of the lowest timestamp, whatever the
\* order of insertion, returns none on an empty queue, and leaves the queue as it
\* was.
C7_NextIsOldest ==
  [][QNext =>
       /\ queue = {} => result' = NoRow
       /\ queue # {} =>
            (result' \in queue /\ \A r \in queue : result'.timestamp <= r.timestamp)
       /\ queue' = queue]_vars

\* rows were inserted with timestamps 1, 0, 2, in this order, and the call
\* returned the second
C7_Witness ==
  /\ input.op = "getNextFromQueue"
  /\ {<<r.id, r.timestamp>> : r \in queue} = {<<1, 1>>, <<2, 0>>, <<3, 2>>}
  /\ result.id = 2

----------------------------------------------------------------------------
(* Properties of autoFollow *)

\* C8 (as amended): after two calls of autoFollow in a row on an account that
\* was neither in followed_dids nor followed on the platform, at most two follow
\* actions were issued; the account is in followed_dids only if one was issued;
\* and exactly one was issued when the first call got the account followed.
C8_OneFollowWhenFirstSucceeds ==
  (calls = 2 /\ result.fresh /\ input # "") =>
    /\ followCalls[input] <= 2
    /\ isFollowed(followed, input) => followCalls[input] >= 1
    /\ result.first = "followed" => followCalls[input] = 1

\* both calls have returned, the first got the account followed, and one follow
\* action was issued
C8_Witness ==
  /\ calls = 2 /\ result.fresh /\ input # ""
  /\ result.first = "followed"
  /\ followCalls[input] = 1
  /\ isFollowed(followed, input)

\* C8 as stated: exactly one follow action is issued, whatever the platform
\* calls do.
C8_Original ==
  (calls = 2 /\ result.fresh /\ input # "") => followCalls[input] = 1

\* C9: the bot never issues a follow action for an account of the blocklist.
C9_NeverFollowsBlocked ==
  [][\A d \in DIDs :
       followCalls'[d] > followCalls[d] => ~isBlocked(blocklist, d)]_vars

----------------------------------------------------------------------------
(* Properties of looksLikePromo *)

\* the text contains an entry of SPAM_PATTERNS, in any letter case
hasSpam(t) ==
  \E spam \in SPAM_PATTERNS : includes(toLowerCase(t), toLowerCase(spam))

\* C10: for a text that contains an entry of SPAM_PATTERNS in any letter case,
\* looksLikePromo returns false, whatever else the text contains.
C10_SpamRejected ==
  (calls = 1 /\ hasSpam(input)) => result = FALSE

\* the text contains the tag, in any letter case
hasTag(t, tag) == includes(toLowerCase(t), tag)

\* the text contains an entry of BAD_CONTEXT, in any letter case
hasBadContext(t) ==
  \E bad \in BAD_CONTEXT : includes(toLowerCase(t), toLowerCase(bad))

\* the number of http:// and https:// in the text, in any letter case
linkCount(t) == linkCountFrom(toLowerCase(t), 1)

\* C11 (as amended): for a text that contains #promote, no entry of
\* SPAM_PATTERNS, no entry of BAD_CONTEXT and at most two URL schemes,
\* looksLikePromo returns true, whatever its length.
C11_StrongTagAccepted ==
  (calls = 1 /\ hasTag(input, "#promote") /\ ~hasSpam(input)
     /\ ~hasBadContext(input) /\ linkCount(input) <= MaxLinks)
    => result = TRUE

\* a text of fewer than 20 characters with #promote was accepted
C11_Witness ==
  /\ calls = 1
  /\ hasTag(input, "#promote") /\ Len(input) < MinTextLength
  /\ result = TRUE

\* C11 as stated: for a text that contains #promote and no entry of
\* SPAM_PATTERNS, looksLikePromo returns true.
C11_Original ==
  (calls = 1 /\ hasTag(input, "#promote") /\ ~hasSpam(input)) => result = TRUE

\* C12: for a text of fewer than 20 characters that does not contain #promote,
\* looksLikePromo returns false, even if the text has a community hashtag.
C12_ShortRejected ==
  (calls = 1 /\ Len(input) < MinTextLength /\ ~hasTag(input, "#promote"))
    => result = FALSE

\* a text of fewer than 20 characters with #indiedev was rejected
C12_Witness ==
  /\ calls = 1
  /\ Len(input) < MinTextLength /\ hasTag(input, "#indiedev")
  /\ ~hasSpam(input) /\ ~hasBadContext(input)
  /\ result = FALSE

\* The rule table of the specification (4.1, rules 1 to 9), read without regard
\* to letter case: the first rule that matches decides.
ruleTable(t) ==
  CASE hasSpam(t) -> FALSE
    [] ~hasSpam(t) /\ hasBadContext(t) -> FALSE
    [] OTHER ->
         IF linkCount(t) > 2 THEN FALSE
         ELSE IF Len(t) < 20 /\ ~hasTag(t, "#promote") THEN FALSE
         ELSE IF hasTag(t, "#promote") THEN TRUE
         ELSE IF hasTag(t, "#spotlight")
                 /\ \E word \in DEV_CONTEXT : hasTag(t, word) THEN TRUE
         ELSE IF \E tag \in {"#buildinpublic", "#indiehackers", "#indiedev",
                             "#solopreneur"} : hasTag(t, tag) THEN TRUE
         ELSE IF linkCount(t) >= 1
                 /\ Cardinality({word \in PROMO_KEYWORDS : hasTag(t, word)}) >= 2
              THEN TRUE
         ELSE FALSE

\* C13: looksLikePromo returns what the rule table gives, for every text.
C13_EqualsRuleTable ==
  calls = 1 => result = ruleTable(input)

\* C14: looksLikePromo called with the empty string or with a missing text
\* returns false and raises no error.
C14_EmptyOrMissingRejected ==
  /\ pc["t1"] # "TypeError"
  /\ (calls = 1 /\ input = "") => result = FALSE

upperChar(c) ==
  CASE c = "a" -> "A" [] c = "b" -> "B" [] c = "c" -> "C" [] c = "d" -> "D"
    [] c = "e" -> "E" [] c = "f" -> "F" [] c = "g" -> "G" [] c = "h" -> "H"
    [] c = "i" -> "I" [] c = "j" -> "J" [] c = "k" -> "K" [] c = "l" -> "L"
    [] c = "m" -> "M" [] c = "n" -> "N" [] c = "o" -> "O" [] c = "p" -> "P"
    [] c = "q" -> "Q" [] c = "r" -> "R" [] c = "s" -> "S" [] c = "t" -> "T"
    [] c = "u" -> "U" [] c = "v" -> "V" [] c = "w" -> "W" [] c = "x" -> "X"
    [] c = "y" -> "Y" [] c = "z" -> "Z" [] OTHER -> c

\* the text in capital letters: it differs from the text in letter case only
RECURSIVE toUpperCase(_)
toUpperCase(s) ==
  IF Len(s) = 0 THEN ""
  ELSE upperChar(SubSeq(s, 1, 1)) \o toUpperCase(SubSeq(s, 2, Len(s)))

----------------------------------------------------------------------------
(* Properties of discovery *)

\* C16: once a uri is in posted_uris, no entry is inserted into the queue for
\* it, whatever discovery passes and publish ticks overlap.
C16_PostedNeverRequeued ==
  [][\A r \in queue' \ queue : ~isPosted(posted, r.uri)]_vars

\* C17: once an account is in the blocklist, no entry authored by it is inserted
\* into the queue, even by a pass that ran its isBlocked check before the
\* account was blocked.
C17_BlockedNeverQueued ==
  [][\A r \in queue' \ queue : ~isBlocked(blocklist, r.author_did)]_vars

(* Properties of publishing against the blocklist *)

\* C18: once an account is in the blocklist, no entry authored by it is
\* published as a spotlight, entries queued before the opt-out included.
C18_BlockedNeverPublished ==
  [][\A r \in published' \ published : ~isBlocked(blocklist, r.author_did)]_vars

----------------------------------------------------------------------------
(* postSpotlight's message on its own: one queue row is rendered *)

MaxHandle == 47
MaxBody == 500

\* s repeated n times
RECURSIVE Repeat(_, _)
Repeat(s, n) ==
  IF n = 0 THEN ""
  ELSE LET half == Repeat(s, n \div 2)
       IN  IF n % 2 = 0 THEN half \o half ELSE half \o half \o s

\* the regular expression /<tag>/i matches s at position j
matchesAt(s, j, tag) ==
  /\ j >= 1
  /\ j + Len(tag) - 1 <= Len(s)
  /\ SubSeq(s, j, j) = SubSeq(tag, 1, 1)
  /\ toLowerCase(SubSeq(s, j, j + Len(tag) - 1)) = tag

\* The characters lo..hi of s that no match of the tag covers. The tag starts
\* with its only "#", so two matches never overlap and the one pass of the g
\* flag finds every one of them.
RECURSIVE keepFrom(_, _, _, _)
keepFrom(s, lo, hi, tag) ==
  IF lo > hi THEN ""
  ELSE IF lo = hi
  THEN IF \E j \in (lo - Len(tag) + 1)..lo : matchesAt(s, j, tag)
       THEN ""
       ELSE SubSeq(s, lo, lo)
  ELSE LET mid == (lo + hi) \div 2
       IN  keepFrom(s, lo, mid, tag) \o keepFrom(s, mid + 1, hi, tag)

\* .replace(/<tag>/gi, '')
replaceAll(s, tag) == keepFrom(s, 1, Len(s), tag)

isSpace(c) == c \in {" ", "\n", "\t", "\r"}

\* String.prototype.trim
RECURSIVE trimStart(_)
trimStart(s) ==
  IF Len(s) > 0 /\ isSpace(SubSeq(s, 1, 1))
  THEN trimStart(SubSeq(s, 2, Len(s)))
  ELSE s

RECURSIVE trimEnd(_)
trimEnd(s) ==
  IF Len(s) > 0 /\ isSpace(SubSeq(s, Len(s), Len(s)))
  THEN trimEnd(SubSeq(s, 1, Len(s) - 1))
  ELSE s

trim(s) == trimEnd(trimStart(s))

\* let cleanText = (submission.text || '')
\*   .replace(/#spotlight/gi, '').replace(/#promote/gi, '').trim();
cleanText(text) ==
  trim(replaceAll(replaceAll(text, "#spotlight"), "#promote"))

maxContentLength == 200

\* if (cleanText.length > maxContentLength)
\*   cleanText = cleanText.substring(0, maxContentLength) + '...';
truncate(clean) ==
  IF Len(clean) > maxContentLength
  THEN SubSeq(clean, 1, maxContentLength) \o "..."
  ELSE clean

\* The template. "*" stands for the star emoji of the header, counted as the one
\* grapheme the platform counts it as.
spotlightText(submission) ==
  "* Spotlight: @" \o submission.author \o "\n\n"
    \o truncate(cleanText(submission.text)) \o "\n\n"
    \o "#IndieSpotlight #SmallCommunities"

\* handles of these lengths
HandleLens == {15, 20, MaxHandle - 1, MaxHandle}
Handles == { Repeat("a", n - Len(".bsky.social")) \o ".bsky.social" : n \in HandleLens }

BodyLens == {0, 20, maxContentLength - 1, maxContentLength,
             maxContentLength + 1, MaxBody}
Heads == {"", "#Spotlight ", "  ", "#spot#Promotelight "}
Tails == {"", " #PROMOTE", " \n"}
Bodies == { h \o Repeat("x", n) \o t : h \in Heads, n \in BodyLens, t \in Tails }

InitRender ==
  /\ Idle
  /\ queue = {} /\ nextId = 1 /\ posted = {} /\ followed = {} /\ blocklist = {}
  /\ following = {}
  /\ input \in [author : Handles, text : Bodies]
  /\ result = [cleanText |-> "", spotlightText |-> ""] /\ calls = 0
  /\ NoRoutine

\* postSpotlight builds the message of the row it took from the queue
Render ==
  /\ calls = 0
  /\ calls' = 1
  /\ result' = [cleanText |-> truncate(cleanText(input.text)),
                spotlightText |-> spotlightText(input)]
  /\ UNCHANGED <<storeVars, now, following, taskVars, histVars, input>>
  /\ UNCHANGED routineVars

NextRender == Render

SpecRender == InitRender /\ [][NextRender]_vars

(* Properties of the rendered message *)

\* C19: for every queue row, whatever the lengths of its handle and its text,
\* the rendered message has at most 300 characters, the platform's limit.
C19_MessageWithinLimit ==
  calls = 1 => Len(result.spotlightText) <= 300

\* C20: a cleaned body longer than the content budget is emitted with a length
\* of exactly the budget, ellipsis included, and ends with the ellipsis; a body
\* within the budget is emitted unchanged.
C20_BodyFitsBudget ==
  calls = 1 =>
    LET clean == cleanText(input.text)
        body == result.cleanText
    IN  IF Len(clean) > maxContentLength
        THEN /\ Len(body) = maxContentLength
             /\ SubSeq(body, Len(body) - 2, Len(body)) = "..."
        ELSE body = clean

\* the text has an occurrence of the tag in some letter case
hasTagAnyCase(text, tag) == \E j \in 1..Len(text) : matchesAt(text, j, tag)

\* C21: the body that postSpotlight publishes has no occurrence of #spotlight
\* or #promote in any letter case, whatever the queued text.
C21_NoCampaignTagInBody ==
  calls = 1 =>
    /\ ~hasTagAnyCase(result.cleanText, "#spotlight")
    /\ ~hasTagAnyCase(result.cleanText, "#promote")

(* Properties of a publish tick *)

\* C22: a postSpotlight tick that finds the queue empty ends at once: nothing is
\* published, no follow is issued, and the queue, posted_uris and followed_users
\* are left as they were.
C22_EmptyQueueNoOp ==
  [][\A t \in Tasks :
       (PubGet(t) /\ queue = {}) =>
         /\ pc'[t] = "idle"
         /\ UNCHANGED <<queue, posted, followed, following, followCalls, published>>]_vars

C22_Witness ==
  \E t \in Tasks : pc[t] = "pub_get" /\ queue = {} /\ posted # {}

----------------------------------------------------------------------------
(* The script of runBotRoutine (index.js): main, the interval timer and the
   invocations of runBotRoutine. Each action is one synchronous stretch of
   JavaScript, from one await to the next. *)

MaxSkips == 2

Body == {"rbr_login", "rbr_post", "rbr_follow", "rbr_share"}

\* runBotRoutine entered without the test of isRunning
RbrEnterNoGuard(t) ==
  /\ isRunning' = TRUE
  /\ pc' = [pc EXCEPT ![t] = IF session = "null" THEN "rbr_login" ELSE "rbr_post"]
  /\ routine' = [routine EXCEPT ![t] = "runBotRoutine"]
  /\ UNCHANGED <<session, calls>>

\* runBotRoutine is called: if (isRunning) return; isRunning = true;
\* if (!session || !session.accessJwt) await login(); else the tasks start
RbrEnter(t) ==
  IF isRunning
  THEN /\ calls < MaxSkips
       /\ calls' = calls + 1
       /\ UNCHANGED <<isRunning, session, pc, routine>>
  ELSE /\ isRunning' = TRUE
       /\ pc' = [pc EXCEPT ![t] = IF session = "null" THEN "rbr_login" ELSE "rbr_post"]
       /\ routine' = [routine EXCEPT ![t] = "runBotRoutine"]
       /\ UNCHANGED <<session, calls>>

\* runBotRoutine without its finally block and without the reset on a failed
\* login
RbrFinallyNoReset(t) ==
  /\ UNCHANGED isRunning
  /\ pc' = [pc EXCEPT ![t] = "idle"]
  /\ routine' = [routine EXCEPT ![t] = "none"]

\* an invocation ends: finally { isRunning = false }
RbrFinally(t) ==
  /\ isRunning' = FALSE
  /\ pc' = [pc EXCEPT ![t] = "idle"]
  /\ routine' = [routine EXCEPT ![t] = "none"]

\* catch (error) { session = null } and then finally
RbrCatch(t) ==
  /\ session' = "null"
  /\ RbrFinally(t)

\* main: await login(). It sets session and returns true, returns false, or
\* getCredentials throws and main's promise is rejected
MainLogin ==
  /\ mainPc = "login"
  /\ \/ session' = "ok" /\ mainPc' = "setInterval" /\ UNCHANGED loginFailed
     \/ loginFailed' = TRUE /\ mainPc' = "setInterval" /\ UNCHANGED session
     \/ loginFailed' = TRUE /\ mainPc' = "crashed" /\ UNCHANGED session
  /\ UNCHANGED <<storeVars, now, following, taskVars, histVars, input, result,
                 calls, isRunning, timer>>

\* main: setInterval(runBotRoutine, TASK_INTERVAL_MS); runBotRoutine();
MainSchedule ==
  /\ mainPc = "setInterval"
  /\ timer' = TRUE
  /\ mainPc' = "done"
  /\ RbrEnter("t1")
  /\ UNCHANGED <<storeVars, now, following, cur, sub, histVars, input, result,
                 loginFailed>>

\* the interval fires and calls runBotRoutine
TimerTick(t) ==
  /\ timer /\ mainPc = "done"
  /\ pc[t] = "idle"
  /\ RbrEnter(t)
  /\ UNCHANGED <<storeVars, now, following, cur, sub, histVars, input, result,
                 timer, mainPc, loginFailed>>

\* const success = await login(); if (!success) { isRunning = false; return; }
RbrLogin(t) ==
  /\ pc[t] = "rbr_login"
  /\ \/ /\ session' = "ok"
        /\ pc' = [pc EXCEPT ![t] = "rbr_post"]
        /\ UNCHANGED <<isRunning, routine>>
     \/ /\ RbrFinally(t)
        /\ UNCHANGED session
  /\ UNCHANGED <<storeVars, now, following, cur, sub, histVars, input, result,
                 calls, timer, mainPc, loginFailed>>

\* await post_daily_message(), or it throws
RbrPost(t) ==
  /\ pc[t] = "rbr_post"
  /\ \/ /\ pc' = [pc EXCEPT ![t] = "rbr_follow"]
        /\ UNCHANGED <<session, isRunning, routine>>
     \/ RbrCatch(t)
  /\ UNCHANGED <<storeVars, now, following, cur, sub, histVars, input, result,
                 calls, timer, mainPc, loginFailed>>

\* await auto_follow_followers(), or it throws
RbrFollow(t) ==
  /\ pc[t] = "rbr_follow"
  /\ \/ /\ pc' = [pc EXCEPT ![t] = "rbr_share"]
        /\ UNCHANGED <<session, isRunning, routine>>
     \/ RbrCatch(t)
  /\ UNCHANGED <<storeVars, now, following, cur, sub, histVars, input, result,
                 calls, timer, mainPc, loginFailed>>

\* await auto_share_topics(), or it throws; the routine is finished
RbrShare(t) ==
  /\ pc[t] = "rbr_share"
  /\ \/ /\ RbrFinally(t)
        /\ UNCHANGED session
     \/ RbrCatch(t)
  /\ UNCHANGED <<storeVars, now, following, cur, sub, histVars, input, result,
                 calls, timer, mainPc, loginFailed>>

InitRoutine ==
  /\ Idle
  /\ queue = {} /\ nextId = 1 /\ posted = {} /\ followed = {} /\ blocklist = {}
  /\ following = {}
  /\ input = "" /\ result = "unset" /\ calls = 0
  /\ session = "null" /\ isRunning = FALSE /\ timer = FALSE
  /\ mainPc = "login" /\ loginFailed = FALSE

NextRoutine ==
  \/ Tick
  \/ MainLogin
  \/ MainSchedule
  \/ \E t \in Tasks :
       \/ TimerTick(t)
       \/ RbrLogin(t) \/ RbrPost(t) \/ RbrFollow(t) \/ RbrShare(t)

SpecRoutine == InitRoutine /\ [][NextRoutine]_vars

\* every awaited call of an invocation in progress returns or throws
FairnessRoutine ==
  \A t \in Tasks :
    WF_vars(RbrLogin(t) \/ RbrPost(t) \/ RbrFollow(t) \/ RbrShare(t))

FairRoutine == SpecRoutine /\ FairnessRoutine

(* Properties of runBotRoutine *)

\* C37: isRunning is true only while an invocation of runBotRoutine is in
\* progress: an invocation that ends, by a failed login, by its last task
\* returning or by a task throwing, leaves isRunning false, and, its awaited
\* calls returning or throwing, isRunning is always reset eventually. An
\* invocation that ends at a task other than the last ended by a throw and
\* leaves session null; an invocation that starts with session null attempts
\* login first, and a task runs only with a session.
C37_RoutineAlwaysReleases ==
  /\ [](isRunning => \E t \in Tasks : pc[t] \in Body)
  /\ [](\A t \in Tasks : pc[t] \in Body \ {"rbr_login"} => session = "ok")
  /\ [][\A t \in Tasks :
          /\ (pc[t] \in Body /\ pc'[t] = "idle") => ~isRunning'
          /\ (pc[t] \in {"rbr_post", "rbr_follow"} /\ pc'[t] = "idle") =>
               session' = "null"
          /\ (pc[t] = "idle" /\ pc'[t] \in Body /\ session = "null") =>
               pc'[t] = "rbr_login"]_vars
  /\ isRunning ~> ~isRunning

\* the login of startup succeeded, a task threw later, and the invocation that
\* followed is attempting login
C37_Witness ==
  /\ ~loginFailed /\ mainPc = "done"
  /\ isRunning /\ session = "null"
  /\ \E t \in Tasks : pc[t] = "rbr_login"

(* Properties of startup *)

\* C23: if the login of startup fails, no periodic timer is scheduled and no
\* task runs afterwards.
C23_NoTimerAfterFailedLogin ==
  loginFailed => (~timer /\ \A t \in Tasks : pc[t] = "idle")

----------------------------------------------------------------------------
(* One pass of a discovery routine, item by item, with the platform calls that
   may fail: input is the routine and the number of its items (search terms,
   followed accounts, notifications), calls the number of items handled so far,
   result what became of the fetch, of each item and of the spotlight-user feed. *)

MaxItems == 3

\* the routines; the last one is searchStartupPosts of src/index.js:689
Passes == {"searchStartupPosts", "searchFollowingNetwork", "checkForSubmissions",
           "index.js:searchStartupPosts"}

\* the routines that fetch their list from the platform first
\* (agent.getFollows, agent.listNotifications)
Fetching == {"searchFollowingNetwork", "checkForSubmissions"}

\* the catch block that ends the try block of an item's platform call
\* ("outer": the catch of the whole routine)
catchOf(r) == IF r = "index.js:searchStartupPosts" THEN "outer" ELSE "item"

InitPass ==
  /\ queue = {} /\ nextId = 1 /\ posted = {} /\ followed = {} /\ blocklist = {}
  /\ following = {} /\ now = 0
  /\ followCalls = NoFollowCalls /\ published = {}
  /\ routine = [t \in Tasks |-> "none"]
  /\ cur = [t \in Tasks |-> "none"]
  /\ sub = [t \in Tasks |-> NoRow]
  /\ input \in [routine : Passes, items : 1..MaxItems]
  /\ pc = [t \in Tasks |-> IF t = "t2" THEN "idle"
                           ELSE IF input.routine \in Fetching THEN "pass_fetch"
                           ELSE "pass_item"]
  /\ result = [fetch |-> "pending", handled |-> {}, failed |-> {}, feed |-> "pending"]
  /\ calls = 0
  /\ NoRoutine

\* await agent.getFollows(...) / await agent.listNotifications(...): the list, or
\* an exception that the catch of the routine takes
PassFetch ==
  /\ pc["t1"] = "pass_fetch"
  /\ \/ /\ result' = [result EXCEPT !.fetch = "ok"]
        /\ pc' = [pc EXCEPT !["t1"] = "pass_item"]
     \/ /\ result' = [result EXCEPT !.fetch = "failed"]
        /\ pc' = [pc EXCEPT !["t1"] = "pass_done"]
  /\ UNCHANGED <<storeVars, now, following, routine, cur, sub, histVars, input,
                 calls, routineVars>>

\* the next item: its platform calls (searchPosts, getAuthorFeed; getProfile,
\* deleteFollow, post, follow, like for a notification) succeed, or one of them
\* throws and the catch block around it takes the exception
PassItem ==
  /\ pc["t1"] = "pass_item"
  /\ calls < input.items
  /\ calls' = calls + 1
  /\ \/ /\ result' = [result EXCEPT !.handled = @ \cup {calls + 1}]
        /\ UNCHANGED pc
     \/ /\ result' = [result EXCEPT !.handled = @ \cup {calls + 1},
                                    !.failed = @ \cup {calls + 1}]
        /\ pc' = [pc EXCEPT !["t1"] = IF catchOf(input.routine) = "outer"
                                      THEN "pass_done" ELSE @]
  /\ UNCHANGED <<storeVars, now, following, routine, cur, sub, histVars, input,
                 routineVars>>

\* the loop is over
PassItemsDone ==
  /\ pc["t1"] = "pass_item"
  /\ calls = input.items
  /\ pc' = [pc EXCEPT !["t1"] = IF input.routine = "checkForSubmissions"
                                THEN "pass_feed" ELSE "pass_done"]
  /\ UNCHANGED <<storeVars, now, following, routine, cur, sub, histVars,
                 harnessVars>>

\* checkForSubmissions: await agent.getAuthorFeed({actor: SPOTLIGHT_USER}) and the
\* pass over its posts, or the call throws
PassFeed ==
  /\ pc["t1"] = "pass_feed"
  /\ \E outcome \in {"ok", "failed"} : result' = [result EXCEPT !.feed = outcome]
  /\ pc' = [pc EXCEPT !["t1"] = "pass_done"]
  /\ UNCHANGED <<storeVars, now, following, routine, cur, sub, histVars, input,
                 calls, routineVars>>

NextPass == PassFetch \/ PassItem \/ PassItemsDone \/ PassFeed

SpecPass == InitPass /\ [][NextPass]_vars

(* Properties of a pass *)

\* C24: a platform failure on one item of a pass (a search term, a followed
\* account's feed, the fetch of the notifications, a notification) does not end
\* the pass: when it is over, every item of it has been handled, and for
\* checkForSubmissions the spotlight-user feed has been fetched.
C24_FailureSkipsOneItem ==
  pc["t1"] = "pass_done" =>
    /\ result.fetch # "failed" => result.handled = 1..input.items
    /\ input.routine = "checkForSubmissions" => result.feed # "pending"

(* Properties of a failing follow *)

\* task t takes the step in which agent.getProfile or agent.follow of its
\* autoFollow call throws
FollowFails(t) ==
  \/ pc[t] = "af_getProfile"
       /\ pc'[t] \notin {"af_getProfile", "af_markFollowed", "af_follow", "exited"}
  \/ pc[t] = "af_follow" /\ pc'[t] \notin {"af_follow", "af_markFollowed", "exited"}

\* C25: a getProfile or follow call that throws inside autoFollow changes
\* nothing in the stores and does not stop the caller: the candidate remains
\* marked in posted_uris and queued (unless it was published meanwhile), the
\* pass goes on with its next step, every published row has been removed from
\* the queue or is about to be by its publish tick, and the account is not
\* added to followed_dids.
C25_FailingFollowSwallowed ==
  [][\A t \in Tasks : FollowFails(t) =>
       /\ UNCHANGED <<queue, posted, followed, blocklist>>
       /\ pc'[t] = CASE routine[t] = "check" -> "chk_like"
                     [] routine[t] = "scan" -> "scan_loop"
                     [] routine[t] = "followBack" -> "fb_loop"
                     [] OTHER -> "idle"
       /\ routine[t] \in {"check", "scan"} =>
            /\ isPosted(posted', PostOf[cur[t]].uri)
            /\ \E r \in queue' \cup published : r.uri = PostOf[cur[t]].uri
       /\ \A r \in published \cap queue' :
            \E o \in Tasks : pc[o] = "pub_remove" /\ sub[o] = r]_vars

C25_Witness ==
  /\ followCalls["did:bob"] > 0
  /\ "did:bob" \notin following
  /\ ~isFollowed(followed, "did:bob")
  /\ \E r \in queue : r.author_did = "did:bob" /\ isPosted(posted, r.uri)
  /\ \E t \in Tasks : pc[t] = "scan_loop"

----------------------------------------------------------------------------
(* The three key-value tables with their timestamps: here posted, followed and
   blocklist hold the full rows (uri, posted_at), (did, followed_at) and
   (did, handle, reason, added_at); elsewhere only what the routines read of
   them. input is the call made last, result what sqlite reported for it. *)

\* INSERT OR REPLACE INTO ...: a row with the key is replaced by the new one
insertOrReplace(table, key, row) ==
  [rows |-> {r \in table : r[key] # row[key]} \cup {row}, error |-> "none",
   changes |-> 1]

\* INSERT OR IGNORE INTO ... on a table whose PRIMARY KEY is the column key
insertOrIgnore(table, key, row) ==
  IF \E r \in table : r[key] = row[key]
  THEN [rows |-> table, error |-> "none", changes |-> 0]
  ELSE [rows |-> table \cup {row}, error |-> "none", changes |-> 1]

Reasons == {"user request", "user request via mention"}

InitStore ==
  /\ Idle
  /\ queue = {} /\ nextId = 1 /\ posted = {} /\ followed = {} /\ blocklist = {}
  /\ following = {}
  /\ input = [op |-> "none", key |-> "", reason |-> ""]
  /\ result = [error |-> "none", changes |-> 0]
  /\ calls = 0
  /\ NoRoutine

\* await markAsPosted(uri)
SMarkAsPosted(uri) ==
  /\ LET r == insertOrIgnore(posted, "uri", [uri |-> uri, posted_at |-> now]) IN
       /\ posted' = r.rows
       /\ result' = [error |-> r.error, changes |-> r.changes]
  /\ input' = [op |-> "markAsPosted", key |-> uri, reason |-> ""]
  /\ UNCHANGED <<queue, nextId, followed, blocklist, now, following, taskVars,
                 histVars, calls, routineVars>>

\* await markAsFollowed(did)
SMarkAsFollowed(did) ==
  /\ LET r == insertOrIgnore(followed, "did", [did |-> did, followed_at |-> now]) IN
       /\ followed' = r.rows
       /\ result' = [error |-> r.error, changes |-> r.changes]
  /\ input' = [op |-> "markAsFollowed", key |-> did, reason |-> ""]
  /\ UNCHANGED <<queue, nextId, posted, blocklist, now, following, taskVars,
                 histVars, calls, routineVars>>

\* await addToBlocklist(did, handle, reason)
SAddToBlocklist(did, reason) ==
  /\ LET r == insertOrIgnore(blocklist, "did",
                             [did |-> did, handle |-> "bob.io", reason |-> reason,
                              added_at |-> now]) IN
       /\ blocklist' = r.rows
       /\ result' = [error |-> r.error, changes |-> r.changes]
  /\ input' = [op |-> "addToBlocklist", key |-> did, reason |-> reason]
  /\ UNCHANGED <<queue, nextId, posted, followed, now, following, taskVars,
                 histVars, calls, routineVars>>

NextStore ==
  \/ Tick
  \/ \E uri \in URIs : SMarkAsPosted(uri)
  \/ \E did \in DIDs : SMarkAsFollowed(did)
  \/ \E did \in DIDs, reason \in Reasons : SAddToBlocklist(did, reason)

SpecStore == InitStore /\ [][NextStore]_vars

(* Properties of the tables *)

\* C26: markAsPosted, markAsFollowed and addToBlocklist insert only when the key
\* is absent: a call with a key already stored reports no error and leaves the
\* table as it was, so every stored row keeps its timestamp and its reason.
C26_InsertIfAbsent ==
  /\ [][/\ posted \subseteq posted'
        /\ followed \subseteq followed'
        /\ blocklist \subseteq blocklist'
        /\ result'.error = "none"
        /\ (input'.op = "markAsPosted" /\ \E r \in posted : r.uri = input'.key)
             => posted' = posted
        /\ (input'.op = "markAsFollowed" /\ \E r \in followed : r.did = input'.key)
             => followed' = followed
        /\ (input'.op = "addToBlocklist" /\ \E r \in blocklist : r.did = input'.key)
             => blocklist' = blocklist]_vars
  /\ [](/\ \A r1, r2 \in posted : r1.uri = r2.uri => r1 = r2
        /\ \A r1, r2 \in followed : r1.did = r2.did => r1 = r2
        /\ \A r1, r2 \in blocklist : r1.did = r2.did => r1 = r2)

C26_Witness ==
  /\ input.op = "addToBlocklist"
  /\ result.changes = 0
  /\ \E r \in blocklist : r.did = input.key /\ r.added_at < now /\ r.reason # input.reason
  /\ \E r \in posted : r.posted_at < now
  /\ \E r \in followed : r.followed_at < now

(* Properties of runBotRoutine *)

\* C27: at most one invocation of runBotRoutine is inside the routine body at
\* any time, and isRunning is set while one is; an invocation that finds
\* isRunning set returns without changing session, isRunning or any invocation
\* in progress.
C27_RoutineMutualExclusion ==
  /\ [](/\ Cardinality({t \in Tasks : pc[t] \in Body}) <= 1
        /\ (\E t \in Tasks : pc[t] \in Body) => isRunning)
  /\ [][calls' # calls => UNCHANGED <<session, isRunning, pc, routine>>]_vars

C27_Witness ==
  /\ calls > 0
  /\ isRunning
  /\ \E t \in Tasks : pc[t] \in {"rbr_post", "rbr_follow", "rbr_share"}

----------------------------------------------------------------------------
(* One candidate on its own: a notification handled by the loop body of
   checkForSubmissions, or a post handled by addPostIfRelevant, with a text
   drawn from the fragments; no other task runs. result notes the path taken
   and whether agent.like was called. *)

MaxItemFragments == 2

ItemTexts ==
  { Concat(fs) : fs \in UNION { [1..n -> Fragments] : n \in 0..MaxItemFragments } }

ItemUri == "at://bob/9"

\* what a call autoFollow(did) may leave behind: did is empty or in
\* followed_dids, getProfile throws, the bot follows the account already, follow
\* throws, follow succeeds
autoFollowOutcomes(did) ==
  IF did = "" \/ isFollowed(followed, did)
  THEN {[followed |-> followed, following |-> following, followCalls |-> followCalls]}
  ELSE {[followed |-> followed, following |-> following, followCalls |-> followCalls]}
       \cup
       IF viewerFollowing(following, did)
       THEN {[followed |-> markAsFollowed(followed, did), following |-> following,
              followCalls |-> followCalls]}
       ELSE {[followed |-> followed, following |-> following,
              followCalls |-> FollowIssued(followCalls, did)],
             [followed |-> markAsFollowed(followed, did),
              following |-> following \cup {did},
              followCalls |-> FollowIssued(followCalls, did)]}

\* await addToQueue(...); await markAsPosted(uri); await autoFollow(authorDid)
Accept(handle, did, text) ==
  /\ queue' = addToQueue(queue, nextId,
                         [author |-> handle, authorDid |-> did, text |-> text,
                          uri |-> ItemUri, timestamp |-> now])
  /\ nextId' = IF queue' # queue THEN nextId + 1 ELSE nextId
  /\ posted' = markAsPosted(posted, ItemUri)
  /\ \E o \in autoFollowOutcomes(did) :
       /\ followed' = o.followed
       /\ following' = o.following
       /\ followCalls' = o.followCalls

InitItem ==
  /\ Idle
  /\ queue = {} /\ nextId = 1 /\ followed = {} /\ following = {}
  /\ posted \in { {}, {ItemUri} }
  /\ blocklist \in { {}, addToBlocklist({}, "did:bob", "bob.io", "user request") }
  /\ input \in ItemTexts
  /\ result = [path |-> "none", liked |-> FALSE]
  /\ calls = 0
  /\ NoRoutine

\* the body of the notification loop of checkForSubmissions for one mention of
\* bob.io with text input
ItemMention ==
  /\ calls = 0
  /\ calls' = 1
  /\ IF input = ""
     THEN /\ result' = [path |-> "mention", liked |-> FALSE]
          /\ UNCHANGED <<storeVars, following, followCalls>>
     ELSE IF isOptOut(input)
     THEN /\ blocklist' = addToBlocklist(blocklist, "did:bob", "bob.io",
                                         "user request via mention")
          /\ result' = [path |-> "mention", liked |-> FALSE]
          /\ UNCHANGED <<queue, nextId, posted, followed, following, followCalls>>
     ELSE IF \/ isPosted(posted, ItemUri)
             \/ isBlocked(blocklist, "did:bob")
             \/ ~mentionMatches(input)
     THEN /\ result' = [path |-> "mention", liked |-> FALSE]
          /\ UNCHANGED <<storeVars, following, followCalls>>
     ELSE /\ Accept("bob.io", "did:bob", input)
          /\ \E liked \in BOOLEAN : result' = [path |-> "mention", liked |-> liked]
          /\ UNCHANGED blocklist
  /\ UNCHANGED <<now, taskVars, published, input, routineVars>>

\* addPostIfRelevant for one post of the account handle with text input
ItemPost(handle) ==
  /\ calls = 0
  /\ calls' = 1
  /\ result' = [path |-> "post", liked |-> FALSE]
  /\ IF \/ isPosted(posted, ItemUri)
        \/ input = ""
        \/ isBlocked(blocklist, "did:bob")
        \/ ~postMatches(handle, input)
     THEN UNCHANGED <<storeVars, following, followCalls>>
     ELSE /\ Accept(handle, "did:bob", input)
          /\ UNCHANGED blocklist
  /\ UNCHANGED <<now, taskVars, published, input, routineVars>>

NextItem ==
  \/ ItemMention
  \/ \E handle \in {"bob.io", "spotbot.bsky.social"} : ItemPost(handle)

SpecItem == InitItem /\ [][NextItem]_vars

(* Properties of one candidate *)

\* C28: every entry in the queue has a text that looksLikePromo accepts,
\* whichever discovery path inserted it.
C28_QueuedTextsAccepted ==
  \A r \in queue : looksLikePromo(r.text)

\* C29: addPostIfRelevant on a candidate that looksLikePromo rejects leaves the
\* queue, posted_uris, followed_dids and the blocklist as they were and issues
\* no follow and no like.
C29_RejectedNeverStored ==
  [][(result'.path = "post" /\ ~looksLikePromo(input)) =>
       /\ UNCHANGED <<queue, nextId, posted, followed, blocklist, following, followCalls>>
       /\ ~result'.liked]_vars

C29_Witness ==
  /\ calls = 1
  /\ result.path = "post"
  /\ hasTag(input, "#spotlight")
  /\ ~looksLikePromo(input)
  /\ ~isPosted(posted, ItemUri)
  /\ blocklist = {}

(* Properties of posted_uris *)

\* C30: a uri that is in posted_uris is in it in every later state: no step of
\* any routine removes one.
C30_PostedMonotonic ==
  [][\A uri \in posted : isPosted(posted', uri)]_vars

C30_Witness ==
  /\ Cardinality(posted) = 2
  /\ \E r \in published : isPosted(posted, r.uri) /\ r \notin queue
  /\ isBlocked(blocklist, "did:bob")
  /\ isFollowed(followed, "did:bob")
  /\ \A t \in Tasks : pc[t] = "exited"

----------------------------------------------------------------------------
(* checkForSubmissions pass after pass over the same notifications:
   listNotifications({limit: 50}) returns the latest mentions and replies
   whether or not an earlier pass has handled them. input is what is left of
   the list in the pass in progress, result the number of passes started and
   calls the number of confirmation replies posted. *)

MaxPasses == 2      \* passes of checkForSubmissions

InitOptOut ==
  /\ Idle
  /\ queue = {} /\ nextId = 1 /\ posted = {} /\ followed = {} /\ blocklist = {}
  /\ following \in SUBSET DIDs
  /\ input = {} /\ result = 0 /\ calls = 0
  /\ NoRoutine

\* setInterval(checkForSubmissions, CHECK_INTERVAL): listNotifications
OptStart ==
  /\ pc["t1"] = "idle" /\ result < MaxPasses
  /\ pc' = [pc EXCEPT !["t1"] = "chk_loop"]
  /\ routine' = [routine EXCEPT !["t1"] = "check"]
  /\ input' = Posts
  /\ result' = result + 1
  /\ UNCHANGED <<cur, sub, storeVars, now, following, histVars, calls, routineVars>>

\* for (const notif of notifications.data.notifications): the next one
OptNext ==
  /\ pc["t1"] = "chk_loop"
  /\ \E p \in input :
       /\ input' = input \ {p}
       /\ pc' = [pc EXCEPT !["t1"] = IF OptOutOf[p] THEN "chk_block" ELSE "isPosted"]
       /\ cur' = [cur EXCEPT !["t1"] = p]
  /\ UNCHANGED <<routine, sub, storeVars, now, following, histVars, result, calls,
                 routineVars>>

\* the list is exhausted: the pass over the spotlight feed
OptFeed ==
  /\ input = {}
  /\ ChkFeed("t1")

\* await agent.post({text: `@${authorHandle} Got it! ...`, reply: ...}): the
\* confirmation is posted, or the call throws (caught, logged)
OptReply ==
  /\ pc["t1"] = "chk_reply"
  /\ calls' \in {calls, calls + 1}
  /\ Goto("t1", "chk_loop")
  /\ UNCHANGED <<storeVars, now, following, histVars, input, result, routineVars>>

NextOptOut ==
  \/ OptStart \/ OptNext \/ OptFeed \/ OptReply
  \/ ChkBlock("t1") \/ ChkProfile("t1") \/ ChkUnfollow("t1") \/ ChkLike("t1")
  \/ IsPostedStep("t1") \/ IsBlockedStep("t1")
  \/ AddToQueueStep("t1") \/ MarkAsPostedStep("t1")
  \/ AutoFollow("t1")
  \/ ScanNext("t1") \/ ScanEnd("t1")

SpecOptOut == InitOptOut /\ [][NextOptOut]_vars

\* C36: for one opt-out mention the bot posts at most one confirmation reply,
\* however many passes fetch the mention.
C36_OptOutHandledOnce ==
  calls <= 1

----------------------------------------------------------------------------

(* post_daily_message, invocation after invocation: now is the clock in
   milliseconds, which advances by the interval of the routine; input is the
   createdAt of the latest post of the account, result what the last
   invocation did. *)

MaxClock == 93      \* the clock runs over this many intervals of the routine

TASK_INTERVAL_MINUTES == 15

TASK_INTERVAL_MS == TASK_INTERVAL_MINUTES * 60 * 1000

POST_INTERVAL_MS == 23 * 60 * 60 * 1000

\* null, for a date
NoDate == -1

\* if (!session) return null; the createdAt of feed[0], or null when the feed
\* is empty or the call threw
get_last_post_time(sess, latest, threw) ==
  IF sess = "null" THEN NoDate
  ELSE IF threw THEN NoDate
  ELSE latest

InitDaily ==
  /\ Idle
  /\ queue = {} /\ nextId = 1 /\ posted = {} /\ followed = {} /\ blocklist = {}
  /\ following = {}
  /\ input \in {NoDate, 0}
  /\ result = [posted |-> FALSE, lastPostDate |-> NoDate] /\ calls = 0
  /\ session = "ok" /\ isRunning = FALSE /\ timer = FALSE
  /\ mainPc = "off" /\ loginFailed = FALSE

\* setInterval(runBotRoutine, TASK_INTERVAL_MS): the time of the next invocation
DailyTick ==
  /\ now < MaxClock * TASK_INTERVAL_MS
  /\ now' = now + TASK_INTERVAL_MS
  /\ UNCHANGED <<storeVars, following, taskVars, histVars, harnessVars>>

\* await post_daily_message(): the lookup returns or throws, the message is
\* skipped, or createRecord is called and succeeds or throws
PostDailyMessage ==
  /\ \E threw \in BOOLEAN : \E created \in BOOLEAN :
       LET lastPostDate == get_last_post_time(session, input, threw)
           timeSinceLastPost == now - lastPostDate
       IN  IF lastPostDate # NoDate /\ timeSinceLastPost < POST_INTERVAL_MS
           THEN /\ result' = [posted |-> FALSE, lastPostDate |-> lastPostDate]
                /\ UNCHANGED input
           ELSE IF created
           THEN /\ result' = [posted |-> TRUE, lastPostDate |-> lastPostDate]
                /\ input' = now
           ELSE /\ result' = [posted |-> FALSE, lastPostDate |-> lastPostDate]
                /\ UNCHANGED input
  /\ UNCHANGED <<storeVars, now, following, taskVars, histVars, calls, routineVars>>

NextDaily == DailyTick \/ PostDailyMessage

SpecDaily == InitDaily /\ [][NextDaily]_vars

\* C38: post_daily_message creates a post only when the account has no post or
\* its latest post is at least POST_INTERVAL_MS old, whatever the lookup did.
C38_DailyPostsApart ==
  [][(PostDailyMessage /\ result'.posted) =>
       (input = NoDate \/ now - input >= POST_INTERVAL_MS)]_vars

----------------------------------------------------------------------------

(* Properties of autoFollow among the overlapping routines *)

\* C31: followed_dids changes only in autoFollow's markAsFollowed, which adds the
\* account autoFollow was called with. A call reaches markAsFollowed only from
\* getProfile reporting viewer.following, with no follow action issued, or from
\* agent.follow succeeding, with exactly one follow action issued for that
\* account in that step and the account followed on the platform after it. No
\* other step issues a follow action, and a failing agent.follow records nothing.
C31_FollowRecordEvents ==
  [][/\ followed' # followed =>
          \E t \in Tasks : /\ pc[t] = "af_markFollowed"
                           /\ followed' = followed \cup {FollowTarget(t)}
                           /\ UNCHANGED followCalls
     /\ followCalls' # followCalls =>
          \E t \in Tasks : /\ pc[t] = "af_follow"
                           /\ followCalls' = FollowIssued(followCalls, FollowTarget(t))
                           /\ UNCHANGED followed
     /\ \A t \in Tasks :
          (pc'[t] = "af_markFollowed" /\ pc[t] # "af_markFollowed") =>
            \/ /\ pc[t] = "af_getProfile"
               /\ viewerFollowing(following, FollowTarget(t))
               /\ UNCHANGED followCalls
            \/ /\ pc[t] = "af_follow"
               /\ followCalls'[FollowTarget(t)] = followCalls[FollowTarget(t)] + 1
               /\ viewerFollowing(following', FollowTarget(t))]_vars

\* one follow action was issued for the account and it is recorded, while
\* another call of autoFollow for it is about to record it too: the one got
\* there by following, the other by the platform reporting the follow
C31_Witness ==
  /\ followCalls["did:bob"] = 1
  /\ isFollowed(followed, "did:bob")
  /\ \E t \in Tasks : pc[t] = "af_markFollowed" /\ FollowTarget(t) = "did:bob"

\* C32: at most one follow action is ever issued per account, also when two
\* calls of autoFollow for it overlap.
C32_OneFollowPerAccount ==
  \A d \in DIDs : followCalls[d] <= 1

(* Properties of the run as a whole *)

\* C33: a uri is published as a spotlight at most once: a publish call succeeds
\* only for a uri that no earlier publish call published.
C33_PublishedOnce ==
  [][\A t \in Tasks :
       PubOk(t) => ~\E r \in published : r.uri = sub[t].uri]_vars

\* C34 (as amended): a publish tick on a queue that is not empty always attempts
\* an entry of the least timestamp; a failed attempt and its catch block change
\* nothing in the stores (no attempt is counted, no entry is skipped or set
\* aside), so the ticks that follow attempt an entry of the least timestamp
\* again, without end; and an entry is published only while no queued entry is
\* older than it.
C34_RetryOldestForever ==
  [][\A t \in Tasks :
       /\ (PubGet(t) /\ queue # {}) =>
            /\ pc'[t] = "pub_post"
            /\ sub'[t] \in queue
            /\ \A r \in queue : sub'[t].timestamp <= r.timestamp
       /\ (PubFail(t) \/ PubCatch(t)) => UNCHANGED <<storeVars, histVars>>
       /\ PubOk(t) => \A r \in queue : sub[t].timestamp <= r.timestamp]_vars

\* the attempt of one tick on the oldest entry has failed, another tick attempts
\* the same entry, a younger entry is queued, and nothing was published
C34_Witness ==
  /\ published = {}
  /\ \E t \in Tasks : \E o \in Tasks :
       /\ pc[t] = "pub_catch" /\ pc[o] = "pub_post"
       /\ sub[t] = sub[o] /\ sub[t] \in queue
       /\ \E r \in queue : r.timestamp > sub[t].timestamp

\* C34 as stated: while the entry queued first stays queued because its attempts
\* fail, no other queued entry is published: an entry is published only when
\* every other queued entry was queued after it.
C34_Original ==
  [][\A t \in Tasks :
       PubOk(t) => \A r \in queue : sub[t].id <= r.id]_vars

\* C35: whenever no discovery pass is between its addToQueue and its
\* markAsPosted, every uri of post_queue is in posted_uris.
C35_QueuedArePosted ==
  (\A t \in Tasks : pc[t] # "markAsPosted") =>
    \A r \in queue : isPosted(posted, r.uri)

====
